---- MODULE Spec2Model ----
(***************************************************************************)
(* Model of the crate `nulls`: the tri-state container Null<T>             *)
(* (Undefined / Null / Value(T)), its inherent operations, its conversions *)
(* and its serde / sqlx trait implementations.                             *)
(*                                                                         *)
(* The crate is a library of pure functions plus one in-place operation    *)
(* (update_to).  The model drives every operation from a harness: each     *)
(* action calls one operation on inputs drawn from bounded sets and        *)
(* records the inputs and the outputs in `op`.  A second specification     *)
(* applies a sequence of patches to one Option slot.                       *)
(***************************************************************************)
EXTENDS Integers, Sequences, FiniteSets

VARIABLES slot0, slot, history, op

vars == <<slot0, slot, history, op>>

(***************************************************************************)
(* Bounds                                                                  *)
(***************************************************************************)
\* payloads of T (and U) are the integers 0..MaxVal
MaxVal == 1
\* longest sequence of patches applied to one slot
MaxPatches == 3

(***************************************************************************)
(* Data: enum Null<T>, Option<T>, Result<T, E>                             *)
(***************************************************************************)
Undefined == [tag |-> "Undefined"]
Null == [tag |-> "Null"]
Value(v) == [tag |-> "Value", v |-> v]

None == [tag |-> "None"]
Some(v) == [tag |-> "Some", v |-> v]

Ok(v) == [tag |-> "Ok", v |-> v]
Err(e) == [tag |-> "Err", e |-> e]

\* the payload type T (an integer type), and U for the transformations
T == 0..MaxVal
OptionOf(S) == {None} \cup {Some(v) : v \in S}
NullOf(S) == {Undefined, Null} \cup {Value(v) : v \in S}

\* the payload types the trait implementations are instantiated at:
\* an integer, and an optional integer (whose own encoding may be null)
TKinds == {"int", "opt_int"}
TValues(kind) == IF kind = "int" THEN T ELSE OptionOf(T)

(***************************************************************************)
(* Inherent operations (impl<T> Null<T>)                                   *)
(***************************************************************************)
is_undefined(self) == self.tag = "Undefined"
is_null(self) == self.tag = "Null"
is_value(self) == self.tag = "Value"

value(self) == IF self.tag = "Value" THEN Some(self.v) ELSE None

take(self) == IF self.tag = "Value" THEN Some(self.v) ELSE None

contains_value(self, x) ==
    IF self.tag = "Value" THEN x = self.v ELSE FALSE

\* contains with Undefined treated like Null
contains_undefined_as_null(self, x) ==
    CASE self.tag = "Value" -> (x.tag = "Some" /\ x.v = self.v)
      [] self.tag = "Null" -> x.tag = "None"
      [] self.tag = "Undefined" -> x.tag = "None"

contains(self, x) ==
    CASE self.tag = "Value" -> (x.tag = "Some" /\ x.v = self.v)
      [] self.tag = "Null" -> x.tag = "None"
      [] self.tag = "Undefined" -> FALSE

\* map with Null passed through without consulting f
map_skips_null(self, f) ==
    CASE self.tag = "Value" ->
           LET r == f[Some(self.v)]
           IN [ret |-> IF r.tag = "Some" THEN Value(r.v) ELSE Null,
               calls |-> <<Some(self.v)>>]
      [] self.tag = "Null" -> [ret |-> Null, calls |-> <<>>]
      [] self.tag = "Undefined" -> [ret |-> Undefined, calls |-> <<>>]

\* map returns the result together with the arguments f was invoked with
map(self, f) ==
    CASE self.tag = "Value" ->
           LET r == f[Some(self.v)]
           IN [ret |-> IF r.tag = "Some" THEN Value(r.v) ELSE Null,
               calls |-> <<Some(self.v)>>]
      [] self.tag = "Null" ->
           LET r == f[None]
           IN [ret |-> IF r.tag = "Some" THEN Value(r.v) ELSE Null,
               calls |-> <<None>>]
      [] self.tag = "Undefined" -> [ret |-> Undefined, calls |-> <<>>]

map_value(self, f) ==
    CASE self.tag = "Value" -> [ret |-> Value(f[self.v]), calls |-> <<self.v>>]
      [] self.tag = "Null" -> [ret |-> Null, calls |-> <<>>]
      [] self.tag = "Undefined" -> [ret |-> Undefined, calls |-> <<>>]

\* update_to with Null treated like Undefined
update_to_ignores_null(self, val) ==
    CASE self.tag = "Value" -> Some(self.v)
      [] self.tag = "Null" -> val
      [] self.tag = "Undefined" -> val

\* update_to with Undefined treated like Null
update_to_clears_on_undefined(self, val) ==
    CASE self.tag = "Value" -> Some(self.v)
      [] self.tag = "Null" -> None
      [] self.tag = "Undefined" -> None

\* update_to(self, value: &mut Option<T>): the content of *value afterwards
update_to(self, val) ==
    CASE self.tag = "Value" -> Some(self.v)
      [] self.tag = "Null" -> None
      [] self.tag = "Undefined" -> val

(***************************************************************************)
(* Conversions                                                             *)
(***************************************************************************)
\* impl From<Null<T>> for Option<Option<T>>
into_nested(maybe_undefined) ==
    CASE maybe_undefined.tag = "Undefined" -> None
      [] maybe_undefined.tag = "Null" -> Some(None)
      [] maybe_undefined.tag = "Value" -> Some(Some(maybe_undefined.v))

\* from_nested with Some(None) flattened to Undefined
from_nested_flattens(val) ==
    IF val.tag = "Some"
    THEN IF val.v.tag = "Some" THEN Value(val.v.v) ELSE Undefined
    ELSE Undefined

\* impl From<Option<Option<T>>> for Null<T>
from_nested(val) ==
    IF val.tag = "Some"
    THEN IF val.v.tag = "Some" THEN Value(val.v.v) ELSE Null
    ELSE Undefined

\* impl From<Option<T>> for Null<T>
from_option(val) ==
    IF val.tag = "Some" THEN Value(val.v) ELSE Undefined

\* from_result with an Err treated as nothing supplied
from_result_err_as_undefined(val) ==
    IF val.tag = "Ok" THEN Value(val.v) ELSE Undefined

\* impl From<Result<T, Error>> for Null<T>
from_result(val) ==
    IF val.tag = "Ok" THEN Value(val.v) ELSE Null

\* sqlx::types::Json<T>, a transparent single-field wrapper
Json(v) == [json0 |-> v]

\* impl From<Result<Json<T>, Error>> for Null<T>
from_result_json(val) ==
    IF val.tag = "Ok" THEN Value(val.v.json0) ELSE Null

\* the errors a fallible lookup can carry (sqlx::Error)
Errors == {"RowNotFound", "ColumnDecode", "PoolTimedOut"}
ResultOf(S) == {Ok(v) : v \in S} \cup {Err(e) : e \in Errors}

(***************************************************************************)
(* Wire format (serde): the collaborating library, as far as the crate     *)
(* consumes it                                                             *)
(***************************************************************************)
\* serde_json::Value
JNull == [j |-> "Null"]
JNumber(n) == [j |-> "Number", n |-> n]
JString(s) == [j |-> "String", s |-> s]
\* numbers on the wire include one that does not fit T
JsonValues == {JNull, JString("oops")} \cup {JNumber(n) : n \in 0..(MaxVal + 1)}

\* what a Deserializer can be handed: a structured value, input that is not
\* a structured value at all, or a field that is missing from its struct
Deserializers ==
    {[src |-> "json", json |-> j] : j \in JsonValues}
        \cup {[src |-> "malformed"], [src |-> "missing"]}

\* Value::deserialize(deserializer)
Value_deserialize(deserializer) ==
    CASE deserializer.src = "json" -> Ok(deserializer.json)
      [] deserializer.src = "malformed" -> Err("syntax error")
      [] deserializer.src = "missing" -> Err("missing field")

\* <T>::deserialize(json), T an integer or an Option of one
T_deserialize(kind, json) ==
    LET int(j) == IF j.j = "Number"
                  THEN IF j.n \in T THEN Ok(j.n) ELSE Err("out of range")
                  ELSE Err("invalid type")
    IN IF kind = "int" THEN int(json)
       ELSE IF json.j = "Null" THEN Ok(None)
       ELSE LET r == int(json)
            IN IF r.tag = "Ok" THEN Ok(Some(r.v)) ELSE r

\* value.serialize(serializer), T an integer or an Option of one
T_serialize(kind, v) ==
    IF kind = "int" THEN Ok(JNumber(v))
    ELSE IF v.tag = "Some" THEN Ok(JNumber(v.v)) ELSE Ok(JNull)

\* impl Serialize for Null<T>
serialize(kind, self) ==
    IF self.tag = "Value" THEN T_serialize(kind, self.v) ELSE Ok(JNull)

\* deserialize with T's parse error handed to the caller
deserialize_propagates(kind, deserializer) ==
    LET r == Value_deserialize(deserializer)
    IN IF r.tag = "Ok"
       THEN IF r.v = JNull
            THEN Ok(Null)
            ELSE LET t == T_deserialize(kind, r.v)
                 IN IF t.tag = "Ok" THEN Ok(Value(t.v)) ELSE t
       ELSE Ok(Undefined)

\* deserialize with the null marker left to T's parser
deserialize_without_null_arm(kind, deserializer) ==
    LET r == Value_deserialize(deserializer)
    IN IF r.tag = "Ok"
       THEN LET t == T_deserialize(kind, r.v)
            IN IF t.tag = "Ok" THEN Ok(Value(t.v)) ELSE Ok(Undefined)
       ELSE Ok(Undefined)

\* impl Deserialize for Null<T>
deserialize(kind, deserializer) ==
    LET r == Value_deserialize(deserializer)
    IN IF r.tag = "Ok"
       THEN IF r.v = JNull
            THEN Ok(Null)
            ELSE LET t == T_deserialize(kind, r.v)
                 IN IF t.tag = "Ok" THEN Ok(Value(t.v)) ELSE Ok(Undefined)
       ELSE Ok(Undefined)

(***************************************************************************)
(* Persistence (sqlx, Postgres): the collaborating driver, as far as the   *)
(* crate consumes it                                                       *)
(***************************************************************************)
\* byte strings of a column value or an argument buffer
MaxBytes == 2
ByteSeqs == UNION {[1..n -> T] : n \in 0..MaxBytes}

\* PgValueRef: the raw column value, None for SQL NULL
PgValueRefs == {[value |-> None]} \cup {[value |-> Some(b)] : b \in ByteSeqs}

PgValueRef_is_null(val) == val.value.tag = "None"

\* T::decode(value), T an integer (one byte wide) or an Option of one
T_decode(kind, val) ==
    LET int(x) == IF x.value.tag = "None" THEN Err(<<"UnexpectedNull">>)
                  ELSE IF Len(x.value.v) = 1 THEN Ok(x.value.v[1])
                  ELSE Err(<<"InvalidLength", Len(x.value.v)>>)
    IN IF kind = "int" THEN int(val)
       ELSE IF PgValueRef_is_null(val) THEN Ok(None)
       ELSE LET r == int(val)
            IN IF r.tag = "Ok" THEN Ok(Some(r.v)) ELSE r

\* value.encode_by_ref(buf), T an integer or an Option of one: the buffer
\* afterwards and the returned IsNull
T_encode_by_ref(kind, v, buf) ==
    IF kind = "int" THEN [buf |-> Append(buf, v), ret |-> Ok("No")]
    ELSE IF v.tag = "Some" THEN [buf |-> Append(buf, v.v), ret |-> Ok("No")]
    ELSE [buf |-> buf, ret |-> Ok("Yes")]

\* encode_by_ref reporting a non-null argument for Undefined
encode_by_ref_undefined_not_null(kind, self, buf) ==
    CASE self.tag = "Value" -> T_encode_by_ref(kind, self.v, buf)
      [] self.tag = "Null" -> [buf |-> buf, ret |-> Ok("Yes")]
      [] self.tag = "Undefined" -> [buf |-> buf, ret |-> Ok("No")]

\* impl Encode<Postgres> for Null<T>
encode_by_ref(kind, self, buf) ==
    IF self.tag = "Value" THEN T_encode_by_ref(kind, self.v, buf)
    ELSE [buf |-> buf, ret |-> Ok("Yes")]

\* decode with T's decode error downgraded as on the wire
decode_swallows(kind, val) ==
    IF PgValueRef_is_null(val)
    THEN Ok(Null)
    ELSE LET r == T_decode(kind, val)
         IN IF r.tag = "Ok" THEN Ok(Value(r.v)) ELSE Ok(Undefined)

\* impl Decode<Postgres> for Null<T>
decode(kind, val) ==
    IF PgValueRef_is_null(val)
    THEN Ok(Null)
    ELSE LET r == T_decode(kind, val)
         IN IF r.tag = "Ok" THEN Ok(Value(r.v)) ELSE r

(***************************************************************************)
(* Specifications                                                          *)
(***************************************************************************)
\* the result type U of the transformations
MaxU == 1
U == 0..MaxU

\* a slot with any content, no patch applied yet
PatchInit ==
    /\ slot0 \in OptionOf(T)
    /\ slot = slot0
    /\ history = <<>>
    /\ op = [name |-> "init"]

\* no operation called yet; the operations below never touch the slot
Init ==
    /\ slot0 = None
    /\ slot = slot0
    /\ history = <<>>
    /\ op = [name |-> "init"]

\* self.update_to(&mut slot)
UpdateTo(p) ==
    /\ Len(history) < MaxPatches
    /\ slot' = update_to(p, slot)
    /\ history' = Append(history, p)
    /\ op' = [name |-> "update_to", self |-> p, before |-> slot]
    /\ UNCHANGED slot0

PatchNext == \E p \in NullOf(T) : UpdateTo(p)

PatchSpec == PatchInit /\ [][PatchNext]_vars

\* Null::<T>::deserialize(d)
Deserialize(kind, d) ==
    /\ op' = [name |-> "deserialize", kind |-> kind, input |-> d,
              out |-> deserialize(kind, d)]
    /\ UNCHANGED <<slot0, slot, history>>

\* Null::<T>::decode(val)
Decode(kind, val) ==
    /\ op' = [name |-> "decode", kind |-> kind, input |-> val,
              out |-> decode(kind, val)]
    /\ UNCHANGED <<slot0, slot, history>>

\* s.serialize(serializer)
Serialize(kind, s) ==
    /\ op' = [name |-> "serialize", kind |-> kind, self |-> s,
              out |-> serialize(kind, s)]
    /\ UNCHANGED <<slot0, slot, history>>

\* s.encode_by_ref(&mut buf)
EncodeByRef(kind, s, buf) ==
    /\ op' = [name |-> "encode_by_ref", kind |-> kind, self |-> s,
              before |-> buf, out |-> encode_by_ref(kind, s, buf)]
    /\ UNCHANGED <<slot0, slot, history>>

\* Null::from(Option::<Option<T>>::from(s))
NestedRoundTrip(s) ==
    /\ op' = [name |-> "nested_round_trip", self |-> s,
              nested |-> into_nested(s),
              back |-> from_nested(into_nested(s))]
    /\ UNCHANGED <<slot0, slot, history>>

\* Option::<Option<T>>::from(Null::from(o))
OptionRoundTrip(o) ==
    /\ op' = [name |-> "option_round_trip", input |-> o,
              null |-> from_nested(o),
              back |-> into_nested(from_nested(o))]
    /\ UNCHANGED <<slot0, slot, history>>

\* Null::from(o), o: Option<T>
FromOption(o) ==
    /\ op' = [name |-> "from_option", input |-> o, out |-> from_option(o)]
    /\ UNCHANGED <<slot0, slot, history>>

\* Null::from(r), r: Result<T, Error>
FromResult(r) ==
    /\ op' = [name |-> "from_result", input |-> r, out |-> from_result(r)]
    /\ UNCHANGED <<slot0, slot, history>>

\* Null::from(r), r: Result<Json<T>, Error>
FromResultJson(r) ==
    /\ op' = [name |-> "from_result_json", input |-> r,
              out |-> from_result_json(r)]
    /\ UNCHANGED <<slot0, slot, history>>

\* s.contains(&x)
Contains(s, x) ==
    /\ op' = [name |-> "contains", self |-> s, x |-> x,
              out |-> contains(s, x)]
    /\ UNCHANGED <<slot0, slot, history>>

\* s.map(f)
Map(s, f) ==
    /\ op' = [name |-> "map", self |-> s, f |-> f, out |-> map(s, f)]
    /\ UNCHANGED <<slot0, slot, history>>

\* s.map_value(f)
MapValue(s, f) ==
    /\ op' = [name |-> "map_value", self |-> s, f |-> f,
              out |-> map_value(s, f)]
    /\ UNCHANGED <<slot0, slot, history>>

\* Null::<T>::deserialize applied to what s.serialize produced, twice over
WireRoundTrip(kind, s) ==
    LET w1 == serialize(kind, s)
        d1 == deserialize(kind, [src |-> "json", json |-> w1.v])
        w2 == serialize(kind, d1.v)
        d2 == deserialize(kind, [src |-> "json", json |-> w2.v])
    IN /\ op' = [name |-> "wire_round_trip", kind |-> kind, self |-> s,
                 wire |-> w1, out |-> d1, again |-> d2]
       /\ UNCHANGED <<slot0, slot, history>>

Next ==
    \/ \E kind \in TKinds : \E d \in Deserializers : Deserialize(kind, d)
    \/ \E kind \in TKinds : \E val \in PgValueRefs : Decode(kind, val)
    \/ \E kind \in TKinds : \E s \in NullOf(TValues(kind)) : Serialize(kind, s)
    \/ \E kind \in TKinds : \E s \in NullOf(TValues(kind)) :
          \E buf \in ByteSeqs : EncodeByRef(kind, s, buf)
    \/ \E s \in NullOf(T) : NestedRoundTrip(s)
    \/ \E o \in OptionOf(OptionOf(T)) : OptionRoundTrip(o)
    \/ \E o \in OptionOf(T) : FromOption(o)
    \/ \E r \in ResultOf(T) : FromResult(r)
    \/ \E r \in ResultOf({Json(v) : v \in T}) : FromResultJson(r)
    \/ \E s \in NullOf(T) : \E x \in OptionOf(T) : Contains(s, x)
    \/ \E s \in NullOf(T) : \E f \in [OptionOf(T) -> OptionOf(U)] : Map(s, f)
    \/ \E s \in NullOf(T) : \E f \in [T -> U] : MapValue(s, f)
    \/ \E kind \in TKinds : \E s \in NullOf(TValues(kind)) :
          WireRoundTrip(kind, s)

Spec == Init /\ [][Next]_vars

(***************************************************************************)
(* Properties                                                              *)
(***************************************************************************)

\* C1: after s.update_to(&mut slot) the slot is Some(v) when s is Value(v),
\* None when s is Null, and its prior content when s is Undefined.
C1_UpdateToPatches ==
    op.name = "update_to" =>
        /\ op.self.tag = "Value" => slot = Some(op.self.v)
        /\ op.self.tag = "Null" => slot = None
        /\ op.self.tag = "Undefined" => slot = op.before

\* an Undefined patch has just been applied to a slot that held a value,
\* after a Null and a Value patch were applied
C1_Witness ==
    /\ op.name = "update_to"
    /\ op.self = Undefined
    /\ op.before.tag = "Some"
    /\ slot.tag = "Some"
    /\ \E i \in 1..Len(history) : history[i].tag = "Null"
    /\ \E i \in 1..Len(history) : history[i].tag = "Value"

\* C2: wire decode always returns Ok: Null for the null marker, Value(parsed)
\* for a non-null value that parses as T, Undefined for a non-null value that
\* does not parse as T and for input that cannot be read or is missing.
C2_DeserializeNeverFails ==
    op.name = "deserialize" =>
        /\ op.out.tag = "Ok"
        /\ op.input.src # "json" => op.out.v = Undefined
        /\ op.input.src = "json" =>
             IF op.input.json = JNull
             THEN op.out.v = Null
             ELSE LET t == T_deserialize(op.kind, op.input.json)
                  IN IF t.tag = "Ok" THEN op.out.v = Value(t.v)
                                     ELSE op.out.v = Undefined

\* a string was decoded where T is an integer
C2_Witness ==
    /\ op.name = "deserialize"
    /\ op.kind = "int"
    /\ op.input = [src |-> "json", json |-> JString("oops")]
    /\ op.out = Ok(Undefined)

\* C3: persistence decode returns Ok(Null) for a NULL column; for a non-NULL
\* column it returns Ok(Value(t)) when T's decode returns Ok(t) and T's own
\* error when T's decode fails, never Undefined or Null.
C3_DecodePropagatesError ==
    op.name = "decode" =>
        IF op.input.value = None
        THEN op.out = Ok(Null)
        ELSE LET t == T_decode(op.kind, op.input)
             IN /\ t.tag = "Ok" => op.out = Ok(Value(t.v))
                /\ t.tag = "Err" => op.out = t
                /\ op.out # Ok(Undefined)
                /\ op.out # Ok(Null)

\* a non-NULL column value of the wrong width was decoded
C3_Witness ==
    /\ op.name = "decode"
    /\ op.input.value.tag = "Some"
    /\ Len(op.input.value.v) = 2
    /\ op.out.tag = "Err"

\* C4: Serialize and Encode emit the null marker (serialize_none; IsNull::Yes
\* with the buffer untouched) for Undefined and for Null alike, and for
\* Value(v) exactly what T's encoder emits for v.
C4_EncodersCollapseNulls ==
    /\ op.name = "serialize" =>
         /\ op.self.tag # "Value" => op.out = Ok(JNull)
         /\ op.self.tag = "Value" => op.out = T_serialize(op.kind, op.self.v)
    /\ op.name = "encode_by_ref" =>
         /\ op.self.tag # "Value" =>
              op.out = [buf |-> op.before, ret |-> Ok("Yes")]
         /\ op.self.tag = "Value" =>
              op.out = T_encode_by_ref(op.kind, op.self.v, op.before)

\* Undefined was encoded into a buffer that already held bytes
C4_Witness ==
    /\ op.name = "encode_by_ref"
    /\ op.self = Undefined
    /\ op.before # <<>>
    /\ op.out.buf = op.before
    /\ op.out.ret = Ok("Yes")

\* C5: the conversions between Null<T> and Option<Option<T>> are inverses in
\* both directions, Undefined <-> None, Null <-> Some(None),
\* Value(v) <-> Some(Some(v)).
C5_NestedInverse ==
    /\ op.name = "nested_round_trip" =>
         /\ op.back = op.self
         /\ op.self.tag = "Undefined" => op.nested = None
         /\ op.self.tag = "Null" => op.nested = Some(None)
         /\ op.self.tag = "Value" => op.nested = Some(Some(op.self.v))
    /\ op.name = "option_round_trip" =>
         /\ op.back = op.input
         /\ op.input = None => op.null = Undefined
         /\ op.input = Some(None) => op.null = Null
         /\ (op.input.tag = "Some" /\ op.input.v.tag = "Some") =>
              op.null = Value(op.input.v.v)

\* Some(None) was converted to Null and back
C5_Witness ==
    /\ op.name = "option_round_trip"
    /\ op.input = Some(None)
    /\ op.null = Null
    /\ op.back = Some(None)

\* C6: s.contains(&x) is true exactly when s is Value(v) and x is Some(v), or
\* s is Null and x is None.
C6_Contains ==
    op.name = "contains" =>
        (op.out <=>
            \/ (op.self.tag = "Value" /\ op.x.tag = "Some"
                  /\ op.x.v = op.self.v)
            \/ (op.self.tag = "Null" /\ op.x.tag = "None"))

\* Null was found to contain None
C6_Witness ==
    /\ op.name = "contains"
    /\ op.self = Null
    /\ op.x = None
    /\ op.out = TRUE

\* C7: map invokes f once with Some(v) for Value(v) and once with None for
\* Null, turning Some(u) into Value(u) and None into Null, and never invokes
\* f for Undefined; map_value never invokes f for Undefined or Null and keeps
\* the variant.  Neither turns Undefined into anything else or anything else
\* into Undefined.
C7_MapInvokesOnce ==
    /\ op.name = "map" =>
         LET arg == IF op.self.tag = "Value" THEN Some(op.self.v) ELSE None
         IN /\ op.self.tag # "Undefined" =>
                 /\ op.out.calls = <<arg>>
                 /\ op.f[arg].tag = "Some" => op.out.ret = Value(op.f[arg].v)
                 /\ op.f[arg].tag = "None" => op.out.ret = Null
            /\ op.self.tag = "Undefined" =>
                 /\ op.out.calls = <<>>
                 /\ op.out.ret = Undefined
            /\ (op.out.ret = Undefined) <=> (op.self = Undefined)
    /\ op.name = "map_value" =>
         /\ op.self.tag # "Value" =>
              /\ op.out.calls = <<>>
              /\ op.out.ret = op.self
         /\ op.out.ret.tag = op.self.tag
         /\ (op.out.ret = Undefined) <=> (op.self = Undefined)

\* map turned Null into a Value because f answered Some for None
C7_Witness ==
    /\ op.name = "map"
    /\ op.self = Null
    /\ op.out.calls = <<None>>
    /\ op.out.ret.tag = "Value"

\* C8: a Result converts to Value(v) for Ok(v) (the payload of the Json
\* wrapper, for a wrapped Ok) and to Null for every Err; never to Undefined.
C8_FromResultCollapses ==
    /\ op.name = "from_result" =>
         /\ op.input.tag = "Ok" => op.out = Value(op.input.v)
         /\ op.input.tag = "Err" => op.out = Null
         /\ op.out # Undefined
    /\ op.name = "from_result_json" =>
         /\ op.input.tag = "Ok" => op.out = Value(op.input.v.json0)
         /\ op.input.tag = "Err" => op.out = Null
         /\ op.out # Undefined

\* a failed lookup was converted
C8_Witness ==
    /\ op.name = "from_result"
    /\ op.input = Err("RowNotFound")
    /\ op.out = Null

\* the patches that are not Undefined
IsProvided(p) == p.tag # "Undefined"

\* C9: after any sequence of patches the slot is what the last patch that is
\* not Undefined says (the initial content if there is none), so Undefined
\* patches anywhere in the sequence do not matter; and a patch applied twice
\* in a row leaves the slot as applying it once.
C9_LastProvidedPatchWins ==
    LET provided == SelectSeq(history, IsProvided)
        n == Len(provided)
        h == Len(history)
    IN /\ n = 0 => slot = slot0
       /\ (n > 0 /\ provided[n].tag = "Value") => slot = Some(provided[n].v)
       /\ (n > 0 /\ provided[n].tag = "Null") => slot = None
       /\ (h >= 2 /\ history[h] = history[h - 1]) => slot = op.before

\* a Value patch, then two Undefined patches, on a slot holding something else
C9_Witness ==
    /\ Len(history) = 3
    /\ history[1].tag = "Value"
    /\ history[2] = Undefined
    /\ history[3] = Undefined
    /\ slot0 # Some(history[1].v)
    /\ slot = Some(history[1].v)

\* C10: deserialize(serialize(s)) is Null for Undefined and for Null, Value(v)
\* for a Value(v) whose own encoding is not null and parses back to v, Null
\* for a Value(v) whose own encoding is null; it is then never Undefined, and
\* a second round trip changes nothing.
C10_WireRoundTripLosesUndefined ==
    op.name = "wire_round_trip" =>
        LET enc == IF op.self.tag = "Value"
                   THEN T_serialize(op.kind, op.self.v).v ELSE JNull
            back == IF op.self.tag = "Value"
                    THEN T_deserialize(op.kind, enc) = Ok(op.self.v)
                    ELSE FALSE
        IN /\ op.self.tag # "Value" => op.out = Ok(Null)
           /\ (op.self.tag = "Value" /\ enc # JNull /\ back) =>
                op.out = Ok(op.self)
           /\ (op.self.tag = "Value" /\ enc = JNull) => op.out = Ok(Null)
           /\ (enc = JNull \/ back) =>
                /\ op.out # Ok(Undefined)
                /\ op.again = op.out

\* Value(None) of an optional payload came back as Null
C10_Witness ==
    /\ op.name = "wire_round_trip"
    /\ op.kind = "opt_int"
    /\ op.self = Value(None)
    /\ op.wire = Ok(JNull)
    /\ op.out = Ok(Null)
====
